---- MODULE Spec2Model ----
(***************************************************************************)
(* gozip: the extraction engine (util.ExtractFile) and the interactive     *)
(* browser built in ui.BuildUI, as state machines.                         *)
(*                                                                         *)
(* Strings are sequences of one-character strings, so that prefix, suffix  *)
(* and substring tests are computed as the Go code computes them.          *)
(* A path on disk is the sequence of its segments below the root.          *)
(***************************************************************************)
EXTENDS Integers, Sequences, FiniteSets, TLC

VARIABLES
    archive,            \* the ZIP file on disk: the sequence of its records (reader.File)
    fs,                 \* the file system: [dirs: set of paths, files: path -> bytes]
    allRows,            \* buildContentTable: the rendered rows of the whole listing
    running,            \* FALSE once app.Stop() was called
    focus,              \* the primitive holding input focus: "table", "filterInput", "modal"
    filterMode,         \* buildContentTable: filterMode
    footerItems,        \* how many times filterFooter is an item of layout
    inputText,          \* the text of filterInput
    tableRows,          \* the data rows of table (row 0, the header, is not stored)
    selectedRow,        \* table.GetSelection(): 1 is the first data row
    lastExtractedRow,   \* buildContentTable: lastExtractedRow, -1 for none
    extractionMessage,  \* buildContentTable: extractionMessage
    title,              \* the title of table
    modalFolder,        \* folderName captured by the dialog that is shown
    ev,                 \* the event handled last
    calls,              \* the calls of util.ExtractFile made while handling ev
    handles             \* the number of readers open on the ZIP file

uiVars == <<allRows, running, focus, filterMode, footerItems, inputText, tableRows,
            selectedRow, lastExtractedRow, extractionMessage, title, modalFolder>>

vars == <<archive, fs, allRows, running, focus, filterMode, footerItems, inputText,
          tableRows, selectedRow, lastExtractedRow, extractionMessage, title,
          modalFolder, ev, calls, handles>>

-----------------------------------------------------------------------------
(* Bounds of the model.                                                    *)

\* the longest archive, in records
MaxRecords == 2

\* the longest text typed into the filter field
MaxFilterLen == 2

-----------------------------------------------------------------------------
(* strings                                                                 *)

\* strings.HasPrefix
HasPrefix(s, prefix) ==
    /\ Len(prefix) <= Len(s)
    /\ SubSeq(s, 1, Len(prefix)) = prefix

\* strings.HasSuffix
HasSuffix(s, suffix) ==
    /\ Len(suffix) <= Len(s)
    /\ SubSeq(s, Len(s) - Len(suffix) + 1, Len(s)) = suffix

\* strings.Split(s, "/"), the segments in order (the current one is cur)
RECURSIVE SplitFrom(_, _, _)
SplitFrom(s, i, cur) ==
    IF i > Len(s) THEN <<cur>>
    ELSE IF s[i] = "/" THEN <<cur>> \o SplitFrom(s, i + 1, <<>>)
    ELSE SplitFrom(s, i + 1, Append(cur, s[i]))

SplitPath(s) == SplitFrom(s, 1, <<>>)

-----------------------------------------------------------------------------
(* paths and the file system                                               *)

\* the destination directory: os.Getwd() of the process, /w
DestDir == << <<"w">> >>

\* filepath.Clean applied segment by segment to an absolute path: empty
\* segments and "." are dropped, ".." removes the segment before it and is
\* dropped at the root
RECURSIVE CleanOnto(_, _, _)
CleanOnto(base, segs, i) ==
    IF i > Len(segs) THEN base
    ELSE IF segs[i] = <<>> \/ segs[i] = <<".">> THEN CleanOnto(base, segs, i + 1)
    ELSE IF segs[i] = <<".", ".">>
         THEN CleanOnto(IF base = <<>> THEN base ELSE SubSeq(base, 1, Len(base) - 1),
                        segs, i + 1)
    ELSE CleanOnto(Append(base, segs[i]), segs, i + 1)

\* filepath.Join(destDir, name)
Join(destDir, name) == CleanOnto(destDir, SplitPath(name), 1)

\* filepath.Dir of a clean absolute path
Dir(path) == IF path = <<>> THEN path ELSE SubSeq(path, 1, Len(path) - 1)

\* every ancestor of path, the root and path itself included
Ancestors(path) == { SubSeq(path, 1, k) : k \in 0..Len(path) }

\* os.MkdirAll(path, 0755): fails when the system refuses (fails) or when a
\* component of path is an existing file; otherwise every missing directory
\* of path exists afterwards
MkdirAll(disk, path, fails) ==
    IF fails \/ \E p \in Ancestors(path) : p \in DOMAIN disk.files
    THEN [err |-> TRUE, fs |-> disk]
    ELSE [err |-> FALSE, fs |-> [disk EXCEPT !.dirs = @ \cup Ancestors(path)]]

\* the file at path holds data afterwards
WriteFile(disk, path, data) ==
    [disk EXCEPT !.files = [p \in DOMAIN @ \cup {path} |-> IF p = path THEN data ELSE @[p]]]

-----------------------------------------------------------------------------
(* the archive                                                             *)

\* the header checksum of a payload (a stand-in for CRC-32: 0 for no bytes)
RECURSIVE Checksum(_)
Checksum(payload) ==
    IF payload = <<>> THEN 0 ELSE 7 * payload[1] + Checksum(Tail(payload))

\* one record of the archive (*zip.File): its name, whether FileInfo().IsDir()
\* holds, its payload, and the header fields openZipFile reads: the sizes,
\* the method code, the modification time (<<>> for the zero time) and CRC32
Rec(name, isDir, payload) ==
    [name |-> name, isDir |-> isDir, payload |-> payload,
     size |-> Len(payload), compressed |-> Len(payload), method |-> 0,
     modified |-> <<>>, crc |-> Checksum(payload)]

\* the names the records of the model carry
NameD     == <<"d">>
NameDSl   == <<"d", "/">>
NameDX    == <<"d", "/", "x">>
NameDY    == <<"d", "/", "y">>
NameD2X   == <<"d", "2", "/", "x">>
NameUp    == <<".", ".", "/", "e">>
NameA     == <<"a">>
NameNone  == <<"z">>
NameEmpty == <<>>

\* the records an archive is drawn from.  zip.FileHeader.Mode sets the
\* directory bit of every name that ends in "/"; a name without the slash is
\* a directory when the archive's attributes say so.  zip.OpenReader accepts
\* two records of one name and names with ".." segments.
RecordUniverse ==
    { Rec(NameDSl, TRUE, <<>>),
      Rec(NameD, TRUE, <<>>),
      Rec(NameD, FALSE, <<1>>),
      Rec(NameDX, FALSE, <<1>>),
      Rec(NameDX, FALSE, <<2, 2>>),
      Rec(NameDY, FALSE, <<3>>),
      Rec(NameD2X, FALSE, <<1>>),
      Rec(NameA, FALSE, <<2, 2>>),
      Rec(NameUp, FALSE, <<1>>) }

\* the sequences of at most n records of universe
RECURSIVE ArchivesFrom(_, _)
ArchivesFrom(universe, n) ==
    IF n = 0 THEN { <<>> }
    ELSE LET shorter == ArchivesFrom(universe, n - 1)
         IN shorter \cup { Append(a, r) : a \in { b \in shorter : Len(b) = n - 1 },
                                           r \in universe }

\* the archives of at most n records
ArchivesUpTo(n) == ArchivesFrom(RecordUniverse, n)

Archives == ArchivesUpTo(MaxRecords)

\* the target names asked of the extraction engine
Targets == { NameD, NameDSl, NameDX, <<"d", "2">>, NameA, NameUp, NameNone, NameEmpty }

-----------------------------------------------------------------------------
(* util.ExtractFile                                                        *)

\* the error values
Nil == [kind |-> "nil"]
OpenZipError == [kind |-> "failed to open ZIP file"]
NotFoundError(targetName) == [kind |-> "not found in ZIP archive", name |-> targetName]
MkdirError == [kind |-> "failed to create directory"]
ExtractError(name) == [kind |-> "failed to extract", name |-> name]

\* what the system may refuse during one call: nothing, opening the archive,
\* or, while record number at is written, creating its directories, opening
\* its payload, creating its file, or the copy after `written` bytes
NoFault == [kind |-> "none", at |-> 0, written |-> 0]

Faults(zip) ==
    { NoFault, [kind |-> "openzip", at |-> 0, written |-> 0] }
    \cup { [kind |-> k, at |-> i, written |-> 0] :
              k \in {"mkdir", "open", "create"}, i \in 1..Len(zip) }
    \cup UNION { { [kind |-> "copy", at |-> i, written |-> n] : n \in 0..Len(zip[i].payload) } :
                 i \in 1..Len(zip) }

FaultAt(fault, i) == IF fault.at = i THEN fault.kind ELSE "none"

\* a buggy variant: the target is used as the prefix as it is
TargetPrefixBare(targetName) == targetName

\* the normalised target: targetName with "/" appended unless it ends in "/"
TargetPrefix(targetName) ==
    IF ~HasSuffix(targetName, <<"/">>) THEN targetName \o <<"/">> ELSE targetName

\* a buggy variant: any name that starts with the target's characters matches
MatchesByLeadingChars(name, targetName) == HasPrefix(name, targetName)

\* the match of one record: exact name, or inside the target folder
Matches(name, targetName) ==
    name = targetName \/ HasPrefix(name, TargetPrefix(targetName))

\* a buggy variant: directory entries are written like files
SkipsNothing(f) == FALSE

\* the record is a directory entry and is skipped
SkipsDirectory(f) == f.isDir

\* a buggy variant: the error of io.Copy is dropped
extractSingleFileIgnoresCopy(f, destPath, disk, faultKind, written) ==
    IF faultKind = "open" THEN [err |-> TRUE, fs |-> disk]
    ELSE IF faultKind = "create" \/ destPath \in disk.dirs THEN [err |-> TRUE, fs |-> disk]
    ELSE IF faultKind = "copy"
         THEN [err |-> FALSE, fs |-> WriteFile(disk, destPath, SubSeq(f.payload, 1, written))]
    ELSE [err |-> FALSE, fs |-> WriteFile(disk, destPath, f.payload)]

\* a buggy variant: the destination is opened without truncating it, the
\* bytes of an older, longer file stay behind the payload
extractSingleFileKeepsTail(f, destPath, disk, faultKind, written) ==
    LET old == IF destPath \in DOMAIN disk.files THEN disk.files[destPath] ELSE <<>>
        over(data) == data \o SubSeq(old, Len(data) + 1, Len(old))
    IN IF faultKind = "open" THEN [err |-> TRUE, fs |-> disk]
       ELSE IF faultKind = "create" \/ destPath \in disk.dirs THEN [err |-> TRUE, fs |-> disk]
       ELSE IF faultKind = "copy"
            THEN [err |-> TRUE,
                  fs |-> WriteFile(disk, destPath, over(SubSeq(f.payload, 1, written)))]
       ELSE [err |-> FALSE, fs |-> WriteFile(disk, destPath, over(f.payload))]

\* extractSingleFile(f, destPath): f.Open(), os.Create(destPath), io.Copy
extractSingleFile(f, destPath, disk, faultKind, written) ==
    IF faultKind = "open" THEN [err |-> TRUE, fs |-> disk]
    ELSE IF faultKind = "create" \/ destPath \in disk.dirs THEN [err |-> TRUE, fs |-> disk]
    ELSE IF faultKind = "copy"
         THEN [err |-> TRUE, fs |-> WriteFile(disk, destPath, SubSeq(f.payload, 1, written))]
    ELSE [err |-> FALSE, fs |-> WriteFile(disk, destPath, f.payload)]

\* a buggy variant: only a record that is written counts as found
MarksFoundFilesOnly(f) == ~f.isDir

\* found = true: every matching record counts as found, before the test for
\* a directory entry
MarksFound(f) == TRUE

\* the loop over reader.File from record i on
RECURSIVE ExtractLoop(_, _, _, _, _, _, _, _)
ExtractLoop(zip, i, targetName, destDir, disk, extractedCount, found, fault) ==
    IF i > Len(zip)
    THEN IF ~found
         THEN [count |-> 0, err |-> NotFoundError(targetName), fs |-> disk]
         ELSE [count |-> extractedCount, err |-> Nil, fs |-> disk]
    ELSE LET f == zip[i] IN
         IF ~Matches(f.name, targetName)
         THEN ExtractLoop(zip, i + 1, targetName, destDir, disk, extractedCount, found, fault)
         ELSE IF SkipsDirectory(f)
         THEN ExtractLoop(zip, i + 1, targetName, destDir, disk, extractedCount,
                          found \/ MarksFound(f), fault)
         ELSE LET destPath == Join(destDir, f.name)
                  made == MkdirAll(disk, Dir(destPath), FaultAt(fault, i) = "mkdir")
                  wrote == extractSingleFile(f, destPath, made.fs, FaultAt(fault, i),
                                             fault.written)
              IN IF made.err
                 THEN [count |-> extractedCount, err |-> MkdirError, fs |-> made.fs]
                 ELSE IF wrote.err
                 THEN [count |-> extractedCount, err |-> ExtractError(f.name), fs |-> wrote.fs]
                 ELSE ExtractLoop(zip, i + 1, targetName, destDir, wrote.fs,
                                  extractedCount + 1, found \/ MarksFound(f), fault)

\* zip.OpenReader: a reader is open unless the call failed
ReaderOpened(fault) == IF fault.kind = "openzip" THEN 0 ELSE 1

\* a buggy variant: the reader is closed only before a return without error
ReaderClosedOnSuccess(opened, err) == IF err = Nil THEN opened ELSE 0

\* defer reader.Close(): the readers closed when the function returns err
ReaderClosed(opened, err) == opened

\* the readers a call leaves open when it has returned err
HandlesLeft(fault, err) == ReaderOpened(fault) - ReaderClosed(ReaderOpened(fault), err)

ExtractFile(zip, targetName, destDir, disk, fault) ==
    IF fault.kind = "openzip"
    THEN [count |-> 0, err |-> OpenZipError, fs |-> disk]
    ELSE ExtractLoop(zip, 1, targetName, destDir, disk, 0, FALSE, fault)

-----------------------------------------------------------------------------
(* The extraction engine on its own: one call, for any archive, any target *)
(* and any destination directory the program may find.                     *)

\* the destination before the first call: empty, or holding an older d/x,
\* or holding a directory where the archive has the file a
EmptyDisk == [dirs |-> { <<>>, DestDir }, files |-> [p \in {} |-> <<>>]]

InitialDisks ==
    { EmptyDisk,
      [dirs |-> { <<>>, DestDir, Join(DestDir, NameD) },
       files |-> [p \in { Join(DestDir, NameDX) } |-> <<9, 9, 9>>]],
      [dirs |-> { <<>>, DestDir, Join(DestDir, NameA) }, files |-> [p \in {} |-> <<>>]] }

\* the title of the table before any extraction: the archive's file name
FileNameTitle == [kind |-> "fileName"]

\* no extraction message
NoMessage == [kind |-> "none"]

\* the browser is not built
NoBrowser ==
    /\ allRows = <<>>
    /\ running = FALSE
    /\ focus = "table"
    /\ filterMode = FALSE
    /\ footerItems = 0
    /\ inputText = <<>>
    /\ tableRows = <<>>
    /\ selectedRow = 1
    /\ lastExtractedRow = -1
    /\ extractionMessage = NoMessage
    /\ title = FileNameTitle
    /\ modalFolder = <<>>

InitExtract ==
    /\ archive \in Archives
    /\ fs \in InitialDisks
    /\ NoBrowser
    /\ ev = [name |-> "init"]
    /\ calls = <<>>
    /\ handles = 0

\* one call ExtractFile(zipPath, targetName, destDir)
CallExtractFile ==
    /\ ev.name = "init"
    /\ \E targetName \in Targets, fault \in Faults(archive) :
        LET r == ExtractFile(archive, targetName, DestDir, fs, fault)
        IN /\ fs' = r.fs
           /\ calls' = << [target |-> targetName, count |-> r.count, err |-> r.err] >>
           /\ ev' = [name |-> "ExtractFile", target |-> targetName, fault |-> fault,
                     disk |-> fs]
           /\ handles' = handles + HandlesLeft(fault, r.err)
           /\ UNCHANGED <<archive, uiVars>>

\* the same call once more, after it returned without an error
CallExtractFileAgain ==
    /\ ev.name = "ExtractFile"
    /\ calls[1].err = Nil
    /\ LET r == ExtractFile(archive, ev.target, DestDir, fs, NoFault)
       IN /\ fs' = r.fs
          /\ calls' = << [target |-> ev.target, count |-> r.count, err |-> r.err] >>
          /\ ev' = [ev EXCEPT !.name = "ExtractFileAgain", !.fault = NoFault]
          /\ handles' = handles + HandlesLeft(NoFault, r.err)
          /\ UNCHANGED <<archive, uiVars>>

NextExtract == CallExtractFile \/ CallExtractFileAgain

SpecExtract == InitExtract /\ [][NextExtract]_vars

-----------------------------------------------------------------------------
(* Claims about the extraction engine, under SpecExtract.                  *)

\* the records of zip the claims call matching: the name equals targetName
\* or starts with targetName followed by "/" (targetName itself when it
\* already ends in "/")
ClaimedMatch(zip, targetName) ==
    { i \in 1..Len(zip) :
        \/ zip[i].name = targetName
        \/ HasPrefix(zip[i].name,
                     IF HasSuffix(targetName, <<"/">>) THEN targetName
                     ELSE targetName \o <<"/">>) }

ClaimedFiles(zip, targetName) == { i \in ClaimedMatch(zip, targetName) : ~zip[i].isDir }

\* the call handled last returned without an error
CallSucceeded(cs) == Len(cs) = 1 /\ cs[1].err = Nil

\* C8: a successful extract writes exactly the files of the non-directory
\* records whose name equals targetName or starts with targetPrefix: each of
\* them exists afterwards with the payload of a matching record of that
\* path, every other path of the destination holds what it held before, and
\* the only new directories are the parents of the written files.
ExtractWritesExactlyTheMatches ==
    [][ (ev'.name = "ExtractFile" /\ CallSucceeded(calls')) =>
          LET files == ClaimedFiles(archive, ev'.target)
              written == { Join(DestDir, archive[i].name) : i \in files }
          IN /\ \A i \in files :
                   LET p == Join(DestDir, archive[i].name)
                   IN /\ p \in DOMAIN fs'.files
                      /\ \E j \in files : /\ Join(DestDir, archive[j].name) = p
                                          /\ fs'.files[p] = archive[j].payload
             /\ \A p \in (DOMAIN fs.files \cup DOMAIN fs'.files) \ written :
                   /\ p \in DOMAIN fs.files
                   /\ p \in DOMAIN fs'.files
                   /\ fs'.files[p] = fs.files[p]
             /\ fs'.dirs = fs.dirs \cup UNION { Ancestors(Dir(p)) : p \in written }
      ]_vars

\* C8 witness: target d was extracted from an archive that also holds the
\* sibling d2/x: d/x is on disk, d2/x is not.
WitnessSiblingNotWritten ==
    /\ ev.name = "ExtractFile"
    /\ ev.target = NameD
    /\ CallSucceeded(calls)
    /\ \E i, j \in 1..Len(archive) : archive[i].name = NameDX /\ archive[j].name = NameD2X
    /\ Join(DestDir, NameDX) \in DOMAIN fs.files
    /\ Join(DestDir, NameD2X) \notin DOMAIN fs.files

\* C9: the count of a successful extract is the number of matching
\* non-directory records; matching directory records are not counted.
CountIsTheFilesWritten ==
    [][ (ev'.name = "ExtractFile" /\ CallSucceeded(calls')) =>
          calls'[1].count = Cardinality(ClaimedFiles(archive, ev'.target)) ]_vars

\* C9 witness: a folder extraction that matched a directory record and a
\* file record returned 1.
WitnessDirectoryNotCounted ==
    /\ ev.name = "ExtractFile"
    /\ CallSucceeded(calls)
    /\ calls[1].count = 1
    /\ \E i \in ClaimedMatch(archive, ev.target) : archive[i].isDir
    /\ \E i \in ClaimedMatch(archive, ev.target) : ~archive[i].isDir

\* C10: when the archive is read and none of its records matches
\* targetName, the call returns the not-found error naming targetName with
\* count 0 and the destination is unchanged.
NoMatchIsNotFound ==
    [][ ( /\ ev'.name = "ExtractFile"
          /\ ev'.fault.kind # "openzip"
          /\ ClaimedMatch(archive, ev'.target) = {} ) =>
          /\ calls'[1].err = NotFoundError(ev'.target)
          /\ calls'[1].count = 0
          /\ fs' = fs ]_vars

\* C10 witness: target d was not found in an archive that holds d2/x.
WitnessNotFound ==
    /\ ev.name = "ExtractFile"
    /\ ev.target = NameD
    /\ ev.fault.kind # "openzip"
    /\ \E i \in 1..Len(archive) : archive[i].name = NameD2X
    /\ calls[1].err = NotFoundError(NameD)
    /\ calls[1].count = 0

\* every path but those of `written` holds after the call what it held before
OthersUntouched(written) ==
    \A p \in (DOMAIN fs.files \cup DOMAIN fs'.files) \ written :
        /\ p \in DOMAIN fs.files
        /\ p \in DOMAIN fs'.files
        /\ fs'.files[p] = fs.files[p]

\* the call named a non-directory record of the archive exactly
ExactFileTarget(zip, targetName) ==
    \E i \in 1..Len(zip) : zip[i].name = targetName /\ ~zip[i].isDir

\* C11 as stated: a successful extract on the exact name of a file record
\* returns count 1 and writes one file, whatever else the archive holds.
ExactNameExtractsOneFile ==
    [][ ( /\ ev'.name = "ExtractFile"
          /\ CallSucceeded(calls')
          /\ ExactFileTarget(archive, ev'.target) ) =>
          /\ calls'[1].count = 1
          /\ Join(DestDir, ev'.target) \in DOMAIN fs'.files
          /\ OthersUntouched({ Join(DestDir, ev'.target) }) ]_vars

\* C11: a successful extract on the exact name of a file record that is the
\* only non-directory record the target matches returns count 1 and writes
\* that one file with the record's payload; every other path is untouched.
LoneExactNameExtractsOneFile ==
    [][ ( /\ ev'.name = "ExtractFile"
          /\ CallSucceeded(calls')
          /\ ExactFileTarget(archive, ev'.target)
          /\ Cardinality(ClaimedFiles(archive, ev'.target)) = 1 ) =>
          LET i == CHOOSE j \in ClaimedFiles(archive, ev'.target) : TRUE
              p == Join(DestDir, ev'.target)
          IN /\ archive[i].name = ev'.target
             /\ calls'[1].count = 1
             /\ p \in DOMAIN fs'.files
             /\ fs'.files[p] = archive[i].payload
             /\ OthersUntouched({p}) ]_vars

\* C11 witness: the file a was extracted by name from an archive that also
\* holds d/x: count 1, a is on disk, d/x is not.
WitnessOneFileOfTwo ==
    /\ ev.name = "ExtractFile"
    /\ ev.target = NameA
    /\ CallSucceeded(calls)
    /\ calls[1].count = 1
    /\ \E i, j \in 1..Len(archive) : archive[i].name = NameA /\ archive[j].name = NameDX
    /\ Join(DestDir, NameA) \in DOMAIN fs.files
    /\ fs.files[Join(DestDir, NameA)] = <<2, 2>>
    /\ Join(DestDir, NameDX) \notin DOMAIN fs.files

\* the destination of record i
DestOf(zip, i) == Join(DestDir, zip[i].name)

\* the matching file records before record i, in archive order
FilesBefore(zip, targetName, i) == { j \in ClaimedFiles(zip, targetName) : j < i }

\* the matching file record that has `count` matching file records before it
FailedRecord(zip, targetName, count) ==
    CHOOSE i \in ClaimedFiles(zip, targetName) :
        Cardinality(FilesBefore(zip, targetName, i)) = count

\* the payload of the last record of S written to path p
LastPayload(zip, S, p) ==
    LET at == { j \in S : DestOf(zip, j) = p }
        last == CHOOSE j \in at : \A h \in at : h <= j
    IN zip[last].payload

\* no record of S is written where another record of S needs a directory
NoClash(zip, S) ==
    \A i, j \in S : DestOf(zip, i) \notin Ancestors(Dir(DestOf(zip, j)))

\* the system refused a step of writing a matching file record
RefusedWhileWriting ==
    /\ ev'.name = "ExtractFile"
    /\ ev'.fault.kind \in {"mkdir", "open", "create", "copy"}
    /\ ev'.fault.at \in ClaimedFiles(archive, ev'.target)

\* the call stopped at record k: the error is that of record k, count is the
\* number of matching file records before k, k is the refused record unless
\* an earlier one could not be written, and no record after k was written
StoppedAt(k) ==
    LET files == ClaimedFiles(archive, ev'.target)
        upTo == FilesBefore(archive, ev'.target, k) \cup {k}
    IN /\ k <= ev'.fault.at
       /\ (fs = EmptyDisk /\ NoClash(archive, FilesBefore(archive, ev'.target, ev'.fault.at + 1)))
             => k = ev'.fault.at
       /\ calls'[1].err \in { MkdirError, ExtractError(archive[k].name) }
       /\ OthersUntouched({ DestOf(archive, j) : j \in upTo })
       /\ fs'.dirs \subseteq fs.dirs \cup UNION { Ancestors(Dir(DestOf(archive, j))) : j \in upTo }

\* C12 as stated: when a step of writing the k-th matching file record
\* fails, the call stops there with the error and count k-1, and each of the
\* k-1 records before it is on disk with its full content.
FailureKeepsEarlierFiles ==
    [][ RefusedWhileWriting =>
          /\ calls'[1].count < Cardinality(ClaimedFiles(archive, ev'.target))
          /\ LET k == FailedRecord(archive, ev'.target, calls'[1].count)
                 before == FilesBefore(archive, ev'.target, k)
             IN /\ StoppedAt(k)
                /\ \A j \in before :
                      /\ DestOf(archive, j) \in DOMAIN fs'.files
                      /\ fs'.files[DestOf(archive, j)]
                            = LastPayload(archive, before, DestOf(archive, j)) ]_vars

\* C12: when a step of writing the k-th matching file record fails, the
\* call stops there with the error and count k-1, no later record is
\* written, and each of the k-1 records before it whose path is not the
\* path of the k-th is on disk with its full content.
FailureKeepsEarlierFilesElsewhere ==
    [][ RefusedWhileWriting =>
          /\ calls'[1].count < Cardinality(ClaimedFiles(archive, ev'.target))
          /\ LET k == FailedRecord(archive, ev'.target, calls'[1].count)
                 before == FilesBefore(archive, ev'.target, k)
             IN /\ StoppedAt(k)
                /\ \A j \in before :
                      DestOf(archive, j) # DestOf(archive, k) =>
                        /\ DestOf(archive, j) \in DOMAIN fs'.files
                        /\ fs'.files[DestOf(archive, j)]
                              = LastPayload(archive, before, DestOf(archive, j)) ]_vars

\* C12 witness: extracting folder d from [d/x, d/y] the copy of d/y broke
\* off: count 1, the error names d/y, d/x is on disk in full.
WitnessSecondRecordFailed ==
    /\ ev.name = "ExtractFile"
    /\ ev.target = NameD
    /\ ev.fault.kind = "copy"
    /\ ev.fault.at = 2
    /\ archive[1].name = NameDX
    /\ archive[2].name = NameDY
    /\ calls[1].count = 1
    /\ calls[1].err = ExtractError(NameDY)
    /\ fs.files[Join(DestDir, NameDX)] = archive[1].payload

\* path lies below the directory dir
IsUnder(path, dir) == HasPrefix(path, dir) /\ path # dir

\* C13 as stated: every file and every directory a call creates or rewrites
\* lies below destDir, whatever names the archive carries.
ExtractedFilesLieUnderDestDir ==
    [][ ev'.name = "ExtractFile" =>
          /\ \A p \in DOMAIN fs'.files :
                (p \notin DOMAIN fs.files \/ fs'.files[p] # fs.files[p]) => IsUnder(p, DestDir)
          /\ \A d \in fs'.dirs \ fs.dirs : IsUnder(d, DestDir) ]_vars

\* C14: after a successful extract every matching file record's destination
\* holds the payload of the record written there (the last one of that
\* path), whatever the path held before; and the same call made once more
\* succeeds with the same count and leaves the destination as it is.
ExtractOverwritesAndRepeats ==
    [][ /\ (ev'.name = "ExtractFile" /\ CallSucceeded(calls')) =>
              LET files == ClaimedFiles(archive, ev'.target)
              IN \A i \in files :
                    /\ DestOf(archive, i) \in DOMAIN fs'.files
                    /\ fs'.files[DestOf(archive, i)]
                          = LastPayload(archive, files, DestOf(archive, i))
        /\ ev'.name = "ExtractFileAgain" =>
              /\ CallSucceeded(calls')
              /\ calls'[1].count = calls[1].count
              /\ fs' = fs ]_vars

\* C14 witness: d/x held three older bytes, it was extracted twice and
\* holds the one-byte payload of its record.
WitnessOverwrittenTwice ==
    /\ ev.name = "ExtractFileAgain"
    /\ ev.target = NameDX
    /\ CallSucceeded(calls)
    /\ Join(DestDir, NameDX) \in DOMAIN ev.disk.files
    /\ ev.disk.files[Join(DestDir, NameDX)] = <<9, 9, 9>>
    /\ archive = << Rec(NameDX, FALSE, <<1>>) >>
    /\ fs.files[Join(DestDir, NameDX)] = <<1>>

-----------------------------------------------------------------------------
(* util.openZipFile and the rendering of the listing                       *)

\* the digits of n in base b, most significant first ("0" for 0)
DigitChars == <<"0", "1", "2", "3", "4", "5", "6", "7", "8", "9",
                "A", "B", "C", "D", "E", "F">>

RECURSIVE FormatBase(_, _)
FormatBase(n, b) ==
    IF n < b THEN << DigitChars[n + 1] >>
    ELSE Append(FormatBase(n \div b, b), DigitChars[(n % b) + 1])

\* the digits A to F of a number in lower case
ToLowerHex(digits) ==
    [i \in 1..Len(digits) |->
        CASE digits[i] = "A" -> "a" [] digits[i] = "B" -> "b" [] digits[i] = "C" -> "c"
          [] digits[i] = "D" -> "d" [] digits[i] = "E" -> "e" [] digits[i] = "F" -> "f"
          [] OTHER -> digits[i]]

\* strconv.FormatUint(n, 10)
FormatUint(n) == FormatBase(n, 10)

\* a buggy variant: the IS FOLDER column reads yes or no
FormatBoolYesNo(b) == IF b THEN <<"y", "e", "s">> ELSE <<"n", "o">>

\* strconv.FormatBool
FormatBool(b) == IF b THEN <<"t", "r", "u", "e">> ELSE <<"f", "a", "l", "s", "e">>

\* a buggy variant: the digits above 9 are written in lower case ("0x%x")
methodToStringLowerHex(m) ==
    CASE m = 0 -> <<"S", "T", "O", "R", "E">>
      [] m = 8 -> <<"D", "E", "F", "L", "A", "T", "E">>
      [] OTHER -> <<"0", "x">> \o ToLowerHex(FormatBase(m, 16))

\* methodToString
methodToString(m) ==
    CASE m = 0 -> <<"S", "T", "O", "R", "E">>
      [] m = 8 -> <<"D", "E", "F", "L", "A", "T", "E">>
      [] OTHER -> <<"0", "x">> \o FormatBase(m, 16)

\* a buggy variant: the folder records are left out of the listing
openZipFileWithoutFolders(zip) ==
    LET IsFile(f) == ~f.isDir
        kept == SelectSeq(zip, IsFile)
    IN [i \in 1..Len(kept) |->
          [fileName |-> kept[i].name,
           dir |-> kept[i].isDir,
           size |-> kept[i].size,
           compressed |-> kept[i].compressed,
           method |-> methodToString(kept[i].method),
           modified |-> IF kept[i].modified # <<>> THEN kept[i].modified ELSE <<"-">>,
           crc |-> kept[i].crc]]

\* the listing openZipFile builds: one ZippedFile per record, in order
openZipFile(zip) ==
    [i \in 1..Len(zip) |->
        [fileName |-> zip[i].name,
         dir |-> zip[i].isDir,
         size |-> zip[i].size,
         compressed |-> zip[i].compressed,
         method |-> methodToString(zip[i].method),
         modified |-> IF zip[i].modified # <<>> THEN zip[i].modified ELSE <<"-">>,
         crc |-> zip[i].crc]]

\* buildContentTable: the row rendered for one ZippedFile
RenderRow(zf) ==
    << zf.fileName, FormatBool(zf.dir), FormatUint(zf.size), zf.modified, FormatUint(zf.crc) >>

\* buildContentTable: allRows
RenderRows(content) == [i \in 1..Len(content) |-> RenderRow(content[i])]

-----------------------------------------------------------------------------
(* populateTable: the filter                                               *)

UpperLetters == <<"A", "B", "C", "D", "E", "F", "G", "H", "I", "J", "K", "L", "M",
                  "N", "O", "P", "Q", "R", "S", "T", "U", "V", "W", "X", "Y", "Z">>
LowerLetters == <<"a", "b", "c", "d", "e", "f", "g", "h", "i", "j", "k", "l", "m",
                  "n", "o", "p", "q", "r", "s", "t", "u", "v", "w", "x", "y", "z">>

\* strings.ToLower
ToLowerChar(c) ==
    IF \E k \in 1..Len(UpperLetters) : UpperLetters[k] = c
    THEN LowerLetters[CHOOSE k \in 1..Len(UpperLetters) : UpperLetters[k] = c]
    ELSE c

ToLower(s) == [i \in 1..Len(s) |-> ToLowerChar(s[i])]

\* strings.Contains
Contains(s, substr) ==
    \E i \in 0..(Len(s) - Len(substr)) : SubSeq(s, i + 1, i + Len(substr)) = substr

\* a buggy variant: the cells are compared as they are written
RowMatchesCaseSensitive(row, filterText) ==
    \/ filterText = <<>>
    \/ \E c \in 1..Len(row) : Contains(row[c], ToLower(filterText))

\* populateTable: the row is shown under filterText
RowMatches(row, filterText) ==
    \/ filterText = <<>>
    \/ \E c \in 1..Len(row) : Contains(ToLower(row[c]), ToLower(filterText))

\* populateTable: the rows shown, in the order of allRows
RECURSIVE FilterRows(_, _)
FilterRows(rows, filterText) ==
    IF rows = <<>> THEN <<>>
    ELSE IF RowMatches(Head(rows), filterText)
         THEN <<Head(rows)>> \o FilterRows(Tail(rows), filterText)
         ELSE FilterRows(Tail(rows), filterText)

-----------------------------------------------------------------------------
(* ui.buildContentTable: the table and the closures over it                *)

\* the table and the variables the closures share, as one value
TableState ==
    [rows |-> tableRows, sel |-> selectedRow, last |-> lastExtractedRow,
     msg |-> extractionMessage, title |-> title]

\* the title and message values
FileMessage(targetName) == [kind |-> "Extracted", name |-> targetName]
FolderMessage(count) == [kind |-> "Extracted folder", count |-> count]
ErrorTitle(err) == [kind |-> "Error", err |-> err]
GetwdError == [kind |-> "getwd"]

\* a buggy variant: the status is never cleared
selectionChangedIgnored(T, row) == T

\* the function given to table.SetSelectionChangedFunc
selectionChanged(T, row) ==
    IF T.last # -1 /\ row # T.last
    THEN [T EXCEPT !.title = FileNameTitle, !.last = -1, !.msg = NoMessage]
    ELSE T

\* table.Select(row, 0): the selection is set and the function is called
Select(T, row) == selectionChanged([T EXCEPT !.sel = row], row)

\* a buggy variant: without table.Clear() the rows below the ones filled in
\* stay in the table
populateTableKeepsRows(T, filterText) ==
    LET rows == FilterRows(allRows, filterText)
        filled == [T EXCEPT !.rows = rows \o SubSeq(@, Len(rows) + 1, Len(@))]
    IN IF Len(rows) + 1 > 1 THEN Select(filled, 1) ELSE filled

\* a buggy variant: the first row is not selected
populateTableNoSelect(T, filterText) == [T EXCEPT !.rows = FilterRows(allRows, filterText)]

\* populateTable(filterText): the table is cleared and filled with the rows
\* that match; the selection is kept by Clear and set to the first data row
\* when there is one
populateTable(T, filterText) ==
    LET rows == FilterRows(allRows, filterText)
        filled == [T EXCEPT !.rows = rows]
    IN IF Len(rows) + 1 > 1 THEN Select(filled, 1) ELSE filled

\* table.GetCell(row, column).Text: an unset cell has the empty text
CellText(T, row, column) ==
    IF row >= 1 /\ row <= Len(T.rows) THEN T.rows[row][column + 1] ELSE <<>>

\* a buggy variant: a failed extraction selects the first row again
extractItemReselects(T, zip, targetName, isFolder, row, disk, getwdFails, fault) ==
    IF getwdFails
    THEN [T |-> [T EXCEPT !.title = ErrorTitle(GetwdError)], fs |-> disk, calls |-> <<>>]
    ELSE LET r == ExtractFile(zip, targetName, DestDir, disk, fault)
             call == [target |-> targetName, count |-> r.count, err |-> r.err]
         IN IF r.err # Nil
            THEN [T |-> [T EXCEPT !.title = ErrorTitle(r.err), !.last = -1,
                                  !.msg = NoMessage, !.sel = 1],
                  fs |-> r.fs, calls |-> <<call>>]
            ELSE LET message == IF isFolder THEN FolderMessage(r.count)
                                ELSE FileMessage(targetName)
                 IN [T |-> [T EXCEPT !.last = row, !.msg = message, !.title = message],
                     fs |-> r.fs, calls |-> <<call>>]

\* extractItem(table, zipPath, targetName, isFolder, row, ...)
extractItem(T, zip, targetName, isFolder, row, disk, getwdFails, fault) ==
    IF getwdFails
    THEN [T |-> [T EXCEPT !.title = ErrorTitle(GetwdError)], fs |-> disk, calls |-> <<>>]
    ELSE LET r == ExtractFile(zip, targetName, DestDir, disk, fault)
             call == [target |-> targetName, count |-> r.count, err |-> r.err]
         IN IF r.err # Nil
            THEN [T |-> [T EXCEPT !.title = ErrorTitle(r.err), !.last = -1,
                                  !.msg = NoMessage],
                  fs |-> r.fs, calls |-> <<call>>]
            ELSE LET message == IF isFolder THEN FolderMessage(r.count)
                                ELSE FileMessage(targetName)
                 IN [T |-> [T EXCEPT !.last = row, !.msg = message, !.title = message],
                     fs |-> r.fs, calls |-> <<call>>]

\* the readers left open by the calls made under fault
HandlesOf(cs, fault) == IF cs = <<>> THEN 0 ELSE HandlesLeft(fault, cs[1].err)

\* a buggy variant: the quit keys are captured whatever has the focus
CaptureStopsEverywhere(on, key, rune) ==
    key = "CtrlC" \/ (key = "Rune" /\ rune \in {"q", "Q"})

\* a buggy variant: only the lower-case q quits
CaptureStopsLowerCase(on, key, rune) ==
    on = "table" /\ (key = "CtrlC" \/ (key = "Rune" /\ rune = "q"))

\* the function given to table.SetInputCapture calls app.Stop(): it sees a
\* key only while the table has the focus
CaptureStops(on, key, rune) ==
    on = "table" /\ (key = "CtrlC" \/ (key = "Rune" /\ rune \in {"q", "Q"}))

\* the event stops the application: by the capture of the table, or by the
\* application itself, which stops on every Ctrl-C that reaches it
Stops(on, key, rune) == CaptureStops(on, key, rune) \/ key = "CtrlC"

\* a buggy variant: a folder is extracted like a file, without the dialog
NeverConfirms(isDirText) == FALSE

\* the input capture on Enter: the row is a folder and the dialog is shown
NeedsConfirmation(isDirText) == isDirText = <<"t", "r", "u", "e">>

-----------------------------------------------------------------------------
(* The browser: one action per event of the tview event loop.              *)

\* the archives the browser is opened on: the scenario archive (a file, a
\* folder and a file in it), a folder next to a file whose name starts like
\* the folder's, an empty folder, and an archive without records
BrowserArchives ==
    { << Rec(NameA, FALSE, <<1>>), Rec(NameDSl, TRUE, <<>>), Rec(NameDX, FALSE, <<1>>) >>,
      << Rec(NameDSl, TRUE, <<>>), Rec(NameD2X, FALSE, <<1>>) >>,
      << Rec(NameDSl, TRUE, <<>>) >>,
      << >> }

\* the characters typed into the filter field
FilterRunes == { "q", "Q", "x" }

\* the state BuildUI returns: the table holds every row, the first data row
\* is selected, the table has the focus
Init ==
    /\ archive \in BrowserArchives
    /\ fs = EmptyDisk
    /\ allRows = RenderRows(openZipFile(archive))
    /\ running = TRUE
    /\ focus = "table"
    /\ filterMode = FALSE
    /\ footerItems = 0
    /\ inputText = <<>>
    /\ tableRows = allRows
    /\ selectedRow = 1
    /\ lastExtractedRow = -1
    /\ extractionMessage = NoMessage
    /\ title = FileNameTitle
    /\ modalFolder = <<>>
    /\ ev = [key |-> "none", rune |-> "", on |-> "table", had |-> -1, shown |-> 0]
    /\ calls = <<>>
    /\ handles = 0

\* the event being handled: the key, the primitive that had the focus, the
\* row that carried the status and the number of rows shown when it arrived
Event(key, rune) ==
    [key |-> key, rune |-> rune, on |-> focus, had |-> lastExtractedRow,
     shown |-> Len(tableRows)]

SetTable(T) ==
    /\ tableRows' = T.rows
    /\ selectedRow' = T.sel
    /\ lastExtractedRow' = T.last
    /\ extractionMessage' = T.msg
    /\ title' = T.title

tableVars == <<tableRows, selectedRow, lastExtractedRow, extractionMessage, title>>

\* Ctrl-C: the table's input capture stops the application; with the focus
\* elsewhere the capture is not reached and the application stops itself
KeyCtrlC ==
    /\ running
    /\ running' = ~Stops(focus, "CtrlC", "")
    /\ ev' = Event("CtrlC", "")
    /\ calls' = <<>>
    /\ UNCHANGED <<archive, fs, handles, allRows, focus, filterMode, footerItems, inputText,
                   tableVars, modalFolder>>

\* Enter on the table: the input capture
TableKeyEnter ==
    /\ running /\ focus = "table"
    /\ ev' = Event("Enter", "")
    /\ LET T == TableState
           row == T.sel
           targetName == CellText(T, row, 0)
       IN IF row < 1
          THEN UNCHANGED <<fs, handles, focus, tableVars, modalFolder>> /\ calls' = <<>>
          ELSE IF NeedsConfirmation(CellText(T, row, 1))
          THEN \* showConfirmationModal: app.SetRoot(modal, true)
               /\ focus' = "modal"
               /\ modalFolder' = targetName
               /\ calls' = <<>>
               /\ UNCHANGED <<fs, handles, tableVars>>
          ELSE \E getwdFails \in BOOLEAN, fault \in Faults(archive) :
                  LET x == extractItem(T, archive, targetName, FALSE, row, fs,
                                       getwdFails, fault)
                  IN /\ SetTable(x.T)
                     /\ fs' = x.fs
                     /\ calls' = x.calls
                     /\ handles' = handles + HandlesOf(x.calls, fault)
                     /\ UNCHANGED <<focus, modalFolder>>
    /\ UNCHANGED <<archive, allRows, running, filterMode, footerItems, inputText>>

\* 'q' or 'Q' on the table: the input capture stops the application
TableKeyQuit ==
    /\ running /\ focus = "table"
    /\ \E r \in {"q", "Q"} :
          /\ ev' = Event("Rune", r)
          /\ running' = ~Stops(focus, "Rune", r)
    /\ calls' = <<>>
    /\ UNCHANGED <<archive, fs, handles, allRows, focus, filterMode, footerItems, inputText,
                   tableVars, modalFolder>>

\* a buggy variant: the text of the field is kept when the filter is opened
FilterKeyKeepsText(text) == text

\* the text 'f' gives the field, whatever it held: filterInput.SetText("")
FilterKeyText(text) == <<>>

\* 'f' or 'F' on the table: filterInput.SetText("") calls the changed
\* function, the footer is added to the layout and the field gets the focus;
\* with filterMode set the key is passed on to the table, which ignores it
TableKeyFilter ==
    /\ running /\ focus = "table"
    /\ \E r \in {"f", "F"} : ev' = Event("Rune", r)
    /\ calls' = <<>>
    /\ IF ~filterMode
       THEN /\ filterMode' = TRUE
            /\ inputText' = FilterKeyText(inputText)
            /\ SetTable(populateTable(TableState, FilterKeyText(inputText)))
            /\ footerItems' = footerItems + 1
            /\ focus' = "filterInput"
       ELSE UNCHANGED <<filterMode, inputText, tableVars, footerItems, focus>>
    /\ UNCHANGED <<archive, fs, handles, allRows, running, modalFolder>>

\* a navigation key on the table (Up, Down, Home, End, PgUp, PgDn, j, k, g,
\* G) that moves the selection to another data row: the input capture passes
\* it on and the table calls the selection-changed function
TableKeyMove ==
    /\ running /\ focus = "table"
    /\ \E row \in 1..Len(tableRows) :
          /\ row # selectedRow
          /\ SetTable(Select(TableState, row))
    /\ ev' = Event("Move", "")
    /\ calls' = <<>>
    /\ UNCHANGED <<archive, fs, handles, allRows, running, focus, filterMode, footerItems,
                   inputText, modalFolder>>

\* a character typed into the filter field: the capture of the table is not
\* reached, the field appends the character and calls the changed function
InputRune ==
    /\ running /\ focus = "filterInput"
    /\ Len(inputText) < MaxFilterLen
    /\ \E r \in FilterRunes :
          /\ ev' = Event("Rune", r)
          /\ running' = ~Stops(focus, "Rune", r)
          /\ inputText' = Append(inputText, r)
          /\ SetTable(populateTable(TableState, Append(inputText, r)))
    /\ calls' = <<>>
    /\ UNCHANGED <<archive, fs, handles, allRows, focus, filterMode, footerItems, modalFolder>>

\* Backspace in the filter field: the last character is removed and the
\* changed function is called
InputBackspace ==
    /\ running /\ focus = "filterInput"
    /\ inputText # <<>>
    /\ ev' = Event("Backspace", "")
    /\ inputText' = SubSeq(inputText, 1, Len(inputText) - 1)
    /\ SetTable(populateTable(TableState, SubSeq(inputText, 1, Len(inputText) - 1)))
    /\ calls' = <<>>
    /\ UNCHANGED <<archive, fs, handles, allRows, running, focus, filterMode, footerItems,
                   modalFolder>>

\* a buggy variant: the done function leaves filterMode as it is
FilterModeKept(mode) == mode

\* the done function: filterMode = false
FilterModeAfterDone(mode) == FALSE

\* a buggy variant: only Escape leaves the filter field
DoneLeavesOnEscapeOnly(key) == key = "Escape"

\* the done function: the keys that leave the filter field
DoneLeavesFilter(key) == key = "Escape" \/ key = "Enter"

\* a buggy variant: Escape keeps the filter text
DoneClearsNothing(key) == FALSE

\* a buggy variant: Enter clears the filter text as well
DoneClearsAlways(key) == TRUE

\* the done function: the key that clears the filter text
DoneClearsFilter(key) == key = "Escape"

\* Enter, Escape or Tab in the filter field: the done function.  On Escape
\* SetText("") calls the changed function before populateTable("") is called;
\* RemoveItem takes every occurrence of the footer out of the layout
InputDone ==
    /\ running /\ focus = "filterInput"
    /\ \E key \in {"Enter", "Escape", "Tab"} :
          /\ ev' = Event(key, "")
          /\ IF DoneLeavesFilter(key)
             THEN /\ filterMode' = FilterModeAfterDone(filterMode)
                  /\ IF DoneClearsFilter(key)
                     THEN /\ inputText' = <<>>
                          /\ SetTable(populateTable(populateTable(TableState, <<>>), <<>>))
                     ELSE UNCHANGED <<inputText, tableVars>>
                  /\ footerItems' = 0
                  /\ focus' = "table"
             ELSE UNCHANGED <<filterMode, inputText, tableVars, footerItems, focus>>
    /\ calls' = <<>>
    /\ UNCHANGED <<archive, fs, handles, allRows, running, modalFolder>>

\* a button of the dialog, or Escape (the empty label): the done function of
\* the modal, then app.SetRoot(layout, true) and app.SetFocus(table)
ModalDone ==
    /\ running /\ focus = "modal"
    /\ \E buttonLabel \in {"Yes", "No", ""} :
          /\ ev' = Event("Button", buttonLabel)
          /\ IF buttonLabel = "Yes"
             THEN \E getwdFails \in BOOLEAN, fault \in Faults(archive) :
                     LET x == extractItem(TableState, archive, modalFolder, TRUE,
                                          selectedRow, fs, getwdFails, fault)
                     IN /\ SetTable(x.T)
                        /\ fs' = x.fs
                        /\ calls' = x.calls
                        /\ handles' = handles + HandlesOf(x.calls, fault)
             ELSE /\ calls' = <<>>
                  /\ UNCHANGED <<fs, handles, tableVars>>
    /\ focus' = "table"
    /\ UNCHANGED <<archive, allRows, running, filterMode, footerItems, inputText,
                   modalFolder>>

\* a character typed while the dialog is shown: the capture of the table is
\* not reached and the buttons ignore it
ModalRune ==
    /\ running /\ focus = "modal"
    /\ \E r \in {"q", "Q"} :
          /\ ev' = Event("Rune", r)
          /\ running' = ~Stops(focus, "Rune", r)
    /\ calls' = <<>>
    /\ UNCHANGED <<archive, fs, handles, allRows, focus, filterMode, footerItems, inputText,
                   tableVars, modalFolder>>

Next ==
    \/ KeyCtrlC
    \/ TableKeyEnter
    \/ TableKeyQuit
    \/ TableKeyFilter
    \/ TableKeyMove
    \/ InputRune
    \/ InputBackspace
    \/ InputDone
    \/ ModalDone
    \/ ModalRune

Spec == Init /\ [][Next]_vars

-----------------------------------------------------------------------------
(* Claims about the browser, under Spec.                                   *)

\* the rows the claims call visible under a filter text: the rows of which
\* some rendered field contains the text, both in lower case, in the order
\* of the listing; every row for the empty text
ClaimedVisible(rows, text) ==
    LET Shown(row) ==
            \/ text = <<>>
            \/ \E c \in 1..Len(row) : Contains(ToLower(row[c]), ToLower(text))
    IN SelectSeq(rows, Shown)

\* the key is one of the quit keys
IsQuitKey(e) == e.key = "CtrlC" \/ (e.key = "Rune" /\ e.rune \in {"q", "Q"})

\* the selected row is a data row of the table, and what it shows
RowSelected == selectedRow >= 1 /\ selectedRow <= Len(tableRows)
SelectedName == tableRows[selectedRow][1]
SelectedIsDirectory == RowSelected /\ tableRows[selectedRow][2] = FormatBool(TRUE)
SelectedIsFile == RowSelected /\ tableRows[selectedRow][2] = FormatBool(FALSE)

\* the title shows a success message
ShowsSuccess(t) == t.kind \in {"Extracted", "Extracted folder"}

\* C1: while the filter field has the focus, a typed 'q' or 'Q' does not
\* stop the application: it is appended to the filter text, the visible
\* rows are those of the new text, and the focus stays in the field.
QuitKeyIsTextInFilterField ==
    [][ (ev'.on = "filterInput" /\ ev'.key = "Rune" /\ ev'.rune \in {"q", "Q"}) =>
          /\ running'
          /\ inputText' = Append(inputText, ev'.rune)
          /\ tableRows' = ClaimedVisible(allRows, inputText')
          /\ focus' = "filterInput"
          /\ filterMode' ]_vars

\* C1 witness: 'q' was typed into the field and the application runs.
WitnessQuitKeyTyped ==
    /\ ev.on = "filterInput" /\ ev.key = "Rune" /\ ev.rune = "q"
    /\ running
    /\ focus = "filterInput"
    /\ inputText # <<>> /\ inputText[Len(inputText)] = "q"

\* C2 as stated: with the focus on the table or on the dialog, 'q', 'Q' or
\* the interrupt key stops the application.
QuitKeysStopOutsideTextField ==
    (ev.on \in {"table", "modal"} /\ IsQuitKey(ev)) => ~running

\* C2 amended: on the table 'q', 'Q' and the interrupt key stop the
\* application; while the dialog is shown the interrupt key stops it and
\* 'q' and 'Q' are ignored, the dialog staying open.
QuitKeysStopOnTableOnly ==
    /\ (ev.on = "table" /\ IsQuitKey(ev)) => ~running
    /\ (ev.on = "modal" /\ ev.key = "CtrlC") => ~running
    /\ (ev.on = "modal" /\ ev.key = "Rune" /\ ev.rune \in {"q", "Q"}) =>
          (running /\ focus = "modal")

\* C2 witness: 'Q' on the table stopped the application.
WitnessQuitOnTable ==
    ev.on = "table" /\ ev.key = "Rune" /\ ev.rune = "Q" /\ ~running

\* C3: a status that is present is on the selected row, and a change of the
\* selection to another row clears it: the title is the file name again.
StatusFollowsSelection ==
    [][ /\ lastExtractedRow' # -1 => lastExtractedRow' = selectedRow'
        /\ ShowsSuccess(title') => lastExtractedRow' = selectedRow'
        /\ (lastExtractedRow # -1 /\ selectedRow' # selectedRow) =>
              /\ lastExtractedRow' = -1
              /\ extractionMessage' = NoMessage
              /\ title' = FileNameTitle ]_vars

\* C3 witness: the selection moved off the row that carried a status, and
\* the title is the file name.
WitnessStatusCleared ==
    /\ ev.key = "Move"
    /\ ev.had # -1
    /\ ev.had # selectedRow
    /\ lastExtractedRow = -1
    /\ title = FileNameTitle

\* C4 as stated: the error message of a failed extraction is not displayed
\* any more once the selection has moved to a different row.
ErrorMessageRetiredWithSelection ==
    [][ ( /\ title.kind = "Error"
          /\ title.err # GetwdError
          /\ selectedRow' # selectedRow ) => title'.kind # "Error" ]_vars

\* C5: Enter on a directory row only opens the dialog; the engine is called
\* with the directory's name after "Yes" and not otherwise; "No" or dismiss
\* leaves the status and the destination alone; the dialog always returns
\* to the table.
FolderIsExtractedOnlyAfterYes ==
    [][ /\ (ev'.on = "table" /\ ev'.key = "Enter" /\ SelectedIsDirectory) =>
              /\ focus' = "modal"
              /\ modalFolder' = SelectedName
              /\ calls' = <<>>
              /\ fs' = fs
              /\ UNCHANGED <<lastExtractedRow, extractionMessage, title>>
        /\ (ev'.on = "table" /\ ev'.key = "Enter" /\ calls' # <<>>) => ~SelectedIsDirectory
        /\ (ev'.on = "modal" /\ ev'.key = "Button") =>
              /\ focus' = "table"
              /\ SelectedIsDirectory /\ modalFolder = SelectedName
              /\ calls' # <<>> =>
                    /\ ev'.rune = "Yes"
                    /\ Len(calls') = 1
                    /\ calls'[1].target = SelectedName
              /\ (ev'.rune = "Yes" /\ title' # ErrorTitle(GetwdError)) => calls' # <<>>
              /\ ev'.rune # "Yes" =>
                    /\ calls' = <<>>
                    /\ fs' = fs
                    /\ UNCHANGED <<lastExtractedRow, extractionMessage, title>> ]_vars

\* C5 witness: "Yes" was chosen and the folder d/ was extracted.
WitnessFolderExtractedAfterYes ==
    /\ ev.on = "modal" /\ ev.key = "Button" /\ ev.rune = "Yes"
    /\ focus = "table"
    /\ Len(calls) = 1
    /\ calls[1].target = NameDSl
    /\ calls[1].err = Nil
    /\ title = FolderMessage(calls[1].count)

\* C6 as stated: Enter on a file row calls the engine exactly once with the
\* row's name, opens no dialog, keeps the table focused and sets the status
\* on the selected row to a success or an error message.  (Stated for the
\* runs in which the working directory is determined.)
EnterOnFileSetsStatusOnRow ==
    [][ ( /\ ev'.on = "table" /\ ev'.key = "Enter" /\ SelectedIsFile
          /\ title' # ErrorTitle(GetwdError) ) =>
          /\ Len(calls') = 1
          /\ calls'[1].target = SelectedName
          /\ focus' = "table"
          /\ lastExtractedRow' = selectedRow
          /\ \/ title' = FileMessage(SelectedName)
             \/ title' = ErrorTitle(calls'[1].err) ]_vars

\* the event handled last made a call that returned an error
CallFailed(cs) == cs # <<>> /\ cs[1].err # Nil

\* C7 as stated: after an extraction call that returned an error the
\* application runs in Normal mode with the listing, the filter text, the
\* visible rows and the selection unchanged and no further call made, and
\* a new Enter on the same row issues a fresh call.  (Stated for the runs
\* in which the working directory is determined.)
EnterAfterFailureCallsAgain ==
    [][ /\ CallFailed(calls') =>
              /\ running' /\ focus' = "table"
              /\ Len(calls') = 1
              /\ UNCHANGED <<archive, allRows, inputText, tableRows, selectedRow>>
        /\ ( /\ CallFailed(calls) /\ ev'.on = "table" /\ ev'.key = "Enter"
             /\ title' # ErrorTitle(GetwdError) ) =>
              /\ Len(calls') = 1
              /\ calls'[1].target = calls[1].target ]_vars

\* C7 amended: ... and a new Enter on the same row starts a fresh attempt:
\* on a file row the engine is called again with the same name unless the
\* working directory cannot be determined, on a directory row the dialog is
\* shown again and "Yes" calls the engine again.
FailureKeepsSessionAndAllowsRetry ==
    [][ /\ CallFailed(calls') =>
              /\ running' /\ focus' = "table"
              /\ Len(calls') = 1
              /\ UNCHANGED <<archive, allRows, inputText, tableRows, selectedRow>>
        /\ (CallFailed(calls) /\ ev'.on = "table" /\ ev'.key = "Enter" /\ ~SelectedIsDirectory
              /\ title' # ErrorTitle(GetwdError)) =>
              /\ Len(calls') = 1
              /\ calls'[1].target = calls[1].target
        /\ (CallFailed(calls) /\ ev'.on = "table" /\ ev'.key = "Enter" /\ SelectedIsDirectory) =>
              /\ calls' = <<>>
              /\ focus' = "modal"
              /\ modalFolder' = calls[1].target
        /\ (ev'.on = "modal" /\ ev'.rune = "Yes" /\ title' # ErrorTitle(GetwdError)) =>
              /\ Len(calls') = 1
              /\ calls'[1].target = modalFolder ]_vars

\* C7 witness: a call for the second row returned an error; the application
\* runs, the table has the focus and the second row is still selected.
WitnessFailedCall ==
    /\ CallFailed(calls)
    /\ running /\ focus = "table"
    /\ selectedRow = 2
    /\ title = ErrorTitle(calls[1].err)

-----------------------------------------------------------------------------
(* The filter on its own: populateTable applied to any listing and any     *)
(* filter text.                                                            *)

\* a record with the header fields the listing shows or hides
Header(rec, method, compressed, modified) ==
    [rec EXCEPT !.method = method, !.compressed = compressed, !.modified = modified]

\* f.Modified.UTC().Format(time.RFC3339) of 2024-01-02 03:04:06 UTC
Stamp == <<"2", "0", "2", "4", "-", "0", "1", "-", "0", "2", "T",
           "0", "3", ":", "0", "4", ":", "0", "6", "Z">>

NameTrue  == <<"t", "r", "u", "e">>
NameUpper == <<"Q">>

\* the records a listing is drawn from: a folder, a deflated file named
\* true whose compressed size is 5, a file of 5 bytes, a file with an
\* upper-case name, and a file in the folder
FilterUniverse ==
    { Rec(NameDSl, TRUE, <<>>),
      Header(Rec(NameTrue, FALSE, <<1>>), 8, 5, Stamp),
      Rec(NameNone, FALSE, <<1, 1, 1, 1, 1>>),
      Header(Rec(NameUpper, FALSE, <<2, 2>>), 8, 1, Stamp),
      Rec(NameDX, FALSE, <<1>>) }

FilterArchives == ArchivesFrom(FilterUniverse, MaxRecords)

\* the filter texts applied
Queries ==
    { <<>>, <<"t", "r", "u", "e">>, <<"T", "r", "U", "e">>, <<"q">>, <<"5">>, <<"o">>,
      <<"2", "4">> }

InitFilter ==
    /\ archive \in FilterArchives
    /\ fs = EmptyDisk
    /\ allRows = RenderRows(openZipFile(archive))
    /\ running = TRUE
    /\ focus = "table"
    /\ filterMode = FALSE
    /\ footerItems = 0
    /\ inputText = <<>>
    /\ tableRows = allRows
    /\ selectedRow = 1
    /\ lastExtractedRow = -1
    /\ extractionMessage = NoMessage
    /\ title = FileNameTitle
    /\ modalFolder = <<>>
    /\ ev = [name |-> "init"]
    /\ calls = <<>>
    /\ handles = 0

\* populateTable(text) for the text set in the filter field
Populate ==
    \E text \in Queries :
        /\ inputText' = text
        /\ SetTable(populateTable(TableState, text))
        /\ ev' = [name |-> "populateTable", text |-> text, was |-> inputText]
        /\ UNCHANGED <<archive, fs, handles, allRows, running, focus, filterMode, footerItems,
                       modalFolder, calls>>

NextFilter == Populate

SpecFilter == InitFilter /\ [][NextFilter]_vars

-----------------------------------------------------------------------------
(* Claims about the filter, under SpecFilter.                              *)

\* the five display fields of a listing entry, as text
ClaimedFields(entry) ==
    << entry.fileName,
       IF entry.dir THEN <<"t", "r", "u", "e">> ELSE <<"f", "a", "l", "s", "e">>,
       FormatUint(entry.size),
       entry.modified,
       FormatUint(entry.crc) >>

\* the lowercased query is a substring of a lowercased display field
ClaimedShown(entry, query) ==
    \E c \in 1..5 :
        LET field == ToLower(ClaimedFields(entry)[c])
            q == ToLower(query)
        IN \E i \in 1..(Len(field) - Len(q) + 1) : SubSeq(field, i, i + Len(q) - 1) = q

\* the entries of listing for which Test holds, in order, as rows
ClaimedRows(listing, Test(_)) ==
    LET kept == SelectSeq(listing, Test)
    IN [i \in 1..Len(kept) |-> ClaimedFields(kept[i])]

\* C15: the rows shown under a filter text are the entries of the listing,
\* in order, for which the lowercased text is a substring of one of the five
\* lowercased display fields; method and compressed size play no part; under
\* the empty text every entry is shown.
FilterIsTheMatchingSubsequence ==
    ev.name = "populateTable" =>
        LET listing == openZipFile(archive)
            Shown(entry) == ClaimedShown(entry, inputText)
        IN /\ tableRows = ClaimedRows(listing, Shown)
           /\ inputText = <<>> => Len(tableRows) = Len(archive)

\* C15 witness: under the text 5 the file of 5 bytes is shown and the file
\* whose compressed size is 5 is not.
WitnessCompressedSizeNotMatched ==
    /\ ev.name = "populateTable"
    /\ inputText = <<"5">>
    /\ Len(archive) = 2
    /\ archive[1].compressed = 5 /\ archive[1].size = 1
    /\ archive[2].size = 5
    /\ Len(tableRows) = 1
    /\ tableRows[1][1] = archive[2].name

\* C16: filtering the shown rows again with the same text changes nothing,
\* recomputing the view with the text it already has leaves the rows as
\* they are, and no recomputation changes the listing.
FilterIsIdempotent ==
    [][ ev'.name = "populateTable" =>
          /\ FilterRows(tableRows', inputText') = tableRows'
          /\ inputText' = inputText => tableRows' = tableRows
          /\ allRows' = allRows
          /\ archive' = archive ]_vars

\* C16 witness: the view was recomputed with the text it had, and it shows
\* one row of a listing of two.
WitnessRecomputedSameText ==
    /\ ev.name = "populateTable"
    /\ ev.was = ev.text
    /\ ev.text = <<"q">>
    /\ Len(allRows) = 2
    /\ Len(tableRows) = 1

\* the entry is a folder or has "true", in any case of letters, in its name
FolderOrNamedTrue(entry) ==
    \/ entry.dir
    \/ \E i \in 1..(Len(entry.fileName) - 3) :
          ToLower(SubSeq(entry.fileName, i, i + 3)) = <<"t", "r", "u", "e">>

\* the filter text is "true" in some case of letters
TextIsTrue == ToLower(inputText) = <<"t", "r", "u", "e">>

\* C17 as stated: under the text "true" every row shown is a folder and every
\* folder of the listing is shown.
TrueShowsOnlyFolders ==
    (ev.name = "populateTable" /\ TextIsTrue) =>
        LET IsFolder(entry) == entry.dir
        IN tableRows = ClaimedRows(openZipFile(archive), IsFolder)

\* C17: under the text "true" every folder of the listing is shown, and
\* every row shown is a folder or an entry with "true" in its name.
TrueShowsFoldersAndNamesWithTrue ==
    (ev.name = "populateTable" /\ TextIsTrue) =>
        tableRows = ClaimedRows(openZipFile(archive), FolderOrNamedTrue)

\* C17 witness: under the text "true" the folder d/ and the file named true
\* are both shown.
WitnessFileNamedTrueShown ==
    /\ ev.name = "populateTable"
    /\ inputText = <<"t", "r", "u", "e">>
    /\ Len(archive) = 2
    /\ archive[1].isDir
    /\ ~archive[2].isDir /\ archive[2].name = NameTrue
    /\ Len(tableRows) = 2

-----------------------------------------------------------------------------
(* Claims about the filter field of the browser, under Spec.               *)

\* the event handled last arrived while the filter field had the focus
InFilterField(e) == e.on = "filterInput"

\* C18: after each change of the filter text in the filter field the table
\* shows the rows of the whole listing that match the new text, the first
\* row is selected when there is one, and the filter field keeps the focus.
TextChangeRefilters ==
    (InFilterField(ev) /\ ev.key \in {"Rune", "Backspace"}) =>
        /\ tableRows = ClaimedVisible(allRows, inputText)
        /\ tableRows # <<>> => selectedRow = 1
        /\ focus = "filterInput"
        /\ filterMode
        /\ footerItems = 1

\* C18 witness: x was typed, one row of three is shown and selected.
WitnessTypedNarrows ==
    /\ InFilterField(ev) /\ ev.key = "Rune"
    /\ inputText = <<"x">>
    /\ Len(allRows) = 3
    /\ Len(tableRows) = 1
    /\ selectedRow = 1
    /\ focus = "filterInput"

\* C19: after Escape in the filter field the filter text is empty, the
\* table shows the whole listing with the first row selected, the table has
\* the focus, the filter mode is left and no extraction was called.
EscapeClearsFilter ==
    (InFilterField(ev) /\ ev.key = "Escape") =>
        /\ inputText = <<>>
        /\ tableRows = allRows
        /\ selectedRow = 1
        /\ focus = "table"
        /\ ~filterMode
        /\ footerItems = 0
        /\ calls = <<>>

\* C19 witness: Escape was pressed in the filter field while the filter
\* text narrowed a listing of three rows to one: all three are shown again.
WitnessEscapeRestores ==
    /\ InFilterField(ev) /\ ev.key = "Escape"
    /\ ev.shown = 1
    /\ inputText = <<>>
    /\ Len(allRows) = 3
    /\ tableRows = allRows
    /\ selectedRow = 1
    /\ focus = "table"

\* C20: Enter in the filter field changes neither the filter text nor the
\* rows shown nor the selection, calls no extraction, gives the focus to the
\* table and leaves the filter mode.
EnterKeepsFilter ==
    [][ (InFilterField(ev') /\ ev'.key = "Enter") =>
          /\ inputText' = inputText
          /\ tableRows' = tableRows
          /\ selectedRow' = selectedRow
          /\ calls' = <<>>
          /\ fs' = fs
          /\ title' = title
          /\ focus' = "table"
          /\ ~filterMode'
          /\ footerItems' = 0 ]_vars

\* C20 witness: Enter was pressed in the filter field with the text x: the
\* one row shown is the file d/x, it is selected and nothing was extracted.
WitnessEnterOnFilteredFile ==
    /\ InFilterField(ev) /\ ev.key = "Enter"
    /\ inputText = <<"x">>
    /\ Len(allRows) = 3
    /\ Len(tableRows) = 1
    /\ selectedRow = 1
    /\ tableRows[1][1] = NameDX
    /\ tableRows[1][2] = <<"f", "a", "l", "s", "e">>
    /\ focus = "table"
    /\ calls = <<>>
    /\ DOMAIN fs.files = {}

\* the event handled last is the key 'f' or 'F' pressed on the table
FilterKeyOnTable(e) == e.on = "table" /\ e.key = "Rune" /\ e.rune \in {"f", "F"}

\* C21: after 'f' or 'F' on the table the filter text is empty, the table
\* shows the whole listing, the filter field has the focus and the filter
\* mode is on, whatever text an earlier Enter had kept.
FilterKeyOpensEmptyFilter ==
    FilterKeyOnTable(ev) =>
        /\ inputText = <<>>
        /\ tableRows = allRows
        /\ focus = "filterInput"
        /\ filterMode
        /\ footerItems = 1

\* C21 witness: 'f' was pressed while a kept filter text showed one row of
\* three: the three rows are shown and the field is empty.
WitnessFilterReopened ==
    /\ FilterKeyOnTable(ev)
    /\ ev.shown = 1
    /\ Len(allRows) = 3
    /\ tableRows = allRows
    /\ inputText = <<>>
    /\ focus = "filterInput"

-----------------------------------------------------------------------------
(* The program from its start: main, util.GetFileToExtract and the browser *)
(* that is run when the start succeeded.                                   *)

\* the command lines the program is started with (os.Args, the program's
\* name first): no argument, a.zip, the bare .zip, a.txt, the empty name,
\* two arguments, an upper-case suffix, a name shorter than the suffix
DotZip == <<".", "z", "i", "p">>

Prog == <<"g">>

ArgLists ==
    { << Prog >>,
      << Prog, <<"a">> \o DotZip >>,
      << Prog, DotZip >>,
      << Prog, <<"a", ".", "t", "x", "t">> >>,
      << Prog, <<>> >>,
      << Prog, <<"a">> \o DotZip, <<"b">> \o DotZip >>,
      << Prog, <<"a", ".", "Z", "I", "P">> >>,
      << Prog, <<"z", "i", "p">> >>,
      << Prog, <<"a">> \o DotZip \o <<".", "b">> >> }

\* what is found at the path of the archive: a ZIP file, nothing, a file
\* that may not be read, a file that is not a ZIP container
FileStates == { "zip", "missing", "unreadable", "notzip" }

\* the ZIP files the program is started on: a deflated file with a time, a
\* folder and a file in it stored with method 12; a single folder; no record
StartArchives ==
    { << Header(Rec(NameA, FALSE, <<2, 2>>), 8, 1, Stamp),
         Rec(NameDSl, TRUE, <<>>),
         Header(Rec(NameDX, FALSE, <<1>>), 12, 5, <<>>) >>,
      << Rec(NameDSl, TRUE, <<>>) >>,
      << >> }

\* the errors of the start
TooManyArgumentsError == [kind |-> "i don't know what to do with so many arguments"]
NoZipFileError == [kind |-> "no zip file provided"]
InvalidNameError == [kind |-> "invalid zip file name"]
OpenError(state) == [kind |-> "open", state |-> state]

\* a buggy variant: the suffix is compared without regard to case
EndsInZipAnyCase(fileName) == HasSuffix(ToLower(fileName), DotZip)

\* strings.HasSuffix(fileName, ".zip")
EndsInZip(fileName) == HasSuffix(fileName, DotZip)

\* getFileArgumentValue, args being os.Args
getFileArgumentValue(args) ==
    IF Len(args) > 2 THEN [fileName |-> <<>>, err |-> TooManyArgumentsError]
    ELSE LET argsWithoutProg == Tail(args)
         IN IF Len(argsWithoutProg) = 0 THEN [fileName |-> <<>>, err |-> NoZipFileError]
            ELSE LET fileName == argsWithoutProg[1]
                 IN IF Len(fileName) = 0 \/ ~EndsInZip(fileName)
                    THEN [fileName |-> <<>>, err |-> InvalidNameError]
                    ELSE [fileName |-> fileName, err |-> Nil]

\* a buggy variant: a file that is not a ZIP container gives an empty listing
openZipFileAtLenient(state, zip) ==
    IF state \in {"missing", "unreadable"}
    THEN [content |-> <<>>, err |-> OpenError(state), open |-> 0]
    ELSE [content |-> IF state = "zip" THEN openZipFile(zip) ELSE <<>>, err |-> Nil,
          open |-> 1 - ReaderClosed(1, Nil)]

\* openZipFile(filePath) with its error: zip.OpenReader fails unless the
\* path holds a ZIP file; the reader is closed when the function returns
openZipFileAt(state, zip) ==
    IF state # "zip"
    THEN [content |-> <<>>, err |-> OpenError(state), open |-> 0]
    ELSE [content |-> openZipFile(zip), err |-> Nil, open |-> 1 - ReaderClosed(1, Nil)]

\* the path of the archive: filepath.Join(execFolder, fileName)
ZipPath(fileName) == Join(DestDir, fileName)

\* getFileArgumentValue was not reached
NotCalled == [fileName |-> <<>>, err |-> [kind |-> "not called"]]

\* GetFileToExtract; arg is what getFileArgumentValue returned to it
GetFileToExtract(args, state, zip, getwdFails) ==
    LET none == [fileName |-> <<>>, filePath |-> <<>>, content |-> <<>>, open |-> 0]
        arg == getFileArgumentValue(args)
        opened == openZipFileAt(state, zip)
    IN IF getwdFails THEN none @@ [err |-> GetwdError, arg |-> NotCalled]
       ELSE IF arg.err # Nil THEN none @@ [err |-> arg.err, arg |-> arg]
       ELSE IF opened.err # Nil THEN none @@ [err |-> opened.err, arg |-> arg]
       ELSE [fileName |-> arg.fileName, filePath |-> ZipPath(arg.fileName),
             content |-> opened.content, open |-> opened.open, err |-> Nil, arg |-> arg]

\* the process was started and main has not run
InitMain ==
    /\ archive \in StartArchives
    /\ fs = EmptyDisk
    /\ NoBrowser
    /\ \E args \in ArgLists, state \in FileStates :
          ev = [name |-> "exec", args |-> args, file |-> state]
    /\ calls = <<>>
    /\ handles = 0

\* the event handled last is the start of the process, or the return of main's
\* call of GetFileToExtract
AtExec == "name" \in DOMAIN ev /\ ev.name = "exec"

AfterMain == "name" \in DOMAIN ev /\ ev.name = "main"

\* a buggy variant: main goes on after an error
PanicsNever(err) == FALSE

\* main: log.Panic(err) ends the process when GetFileToExtract returned an error
Panics(err) == err # Nil

\* main: GetFileToExtract, then log.Panic(err) or ui.BuildUI and Run
Main ==
    /\ AtExec
    /\ \E getwdFails \in BOOLEAN :
          LET r == GetFileToExtract(ev.args, ev.file, archive, getwdFails)
          IN /\ ev' = [name |-> "main", args |-> ev.args, file |-> ev.file,
                       fileName |-> r.fileName, filePath |-> r.filePath,
                       content |-> r.content, err |-> r.err, arg |-> r.arg]
             /\ handles' = handles + r.open
             /\ IF Panics(r.err)
                THEN UNCHANGED uiVars
                ELSE /\ allRows' = RenderRows(r.content)
                     /\ running' = TRUE
                     /\ focus' = "table"
                     /\ filterMode' = FALSE
                     /\ footerItems' = 0
                     /\ inputText' = <<>>
                     /\ tableRows' = RenderRows(r.content)
                     /\ selectedRow' = 1
                     /\ lastExtractedRow' = -1
                     /\ extractionMessage' = NoMessage
                     /\ title' = FileNameTitle
                     /\ modalFolder' = <<>>
    /\ UNCHANGED <<archive, fs, calls>>

\* an event of the browser; there is none before the browser runs
BrowserEvent == running /\ Next

NextMain == Main \/ BrowserEvent

SpecMain == InitMain /\ [][NextMain]_vars

-----------------------------------------------------------------------------
(* methodToString on its own, for every method code of 16 bits.            *)

\* the largest method code (uint16)
MaxMethodCode == 65535

InitMethod ==
    /\ archive = <<>>
    /\ fs = EmptyDisk
    /\ NoBrowser
    /\ \E m \in 0..MaxMethodCode : ev = [name |-> "init", m |-> m]
    /\ calls = <<>>
    /\ handles = 0

\* methodToString(m)
CallMethodToString ==
    /\ ev.name = "init"
    /\ ev' = [name |-> "methodToString", m |-> ev.m, s |-> methodToString(ev.m)]
    /\ UNCHANGED <<archive, fs, uiVars, calls, handles>>

NextMethod == CallMethodToString

SpecMethod == InitMethod /\ [][NextMethod]_vars

\* the upper-case hexadecimal digits
ClaimedHexDigits == <<"0", "1", "2", "3", "4", "5", "6", "7", "8", "9",
                      "A", "B", "C", "D", "E", "F">>

\* the four hexadecimal digits of a code of 16 bits, without leading zeros
ClaimedHex(m) ==
    LET all == << ClaimedHexDigits[(m \div 4096) + 1],
                  ClaimedHexDigits[((m \div 256) % 16) + 1],
                  ClaimedHexDigits[((m \div 16) % 16) + 1],
                  ClaimedHexDigits[(m % 16) + 1] >>
        first == IF m >= 4096 THEN 1 ELSE IF m >= 256 THEN 2 ELSE IF m >= 16 THEN 3 ELSE 4
    IN SubSeq(all, first, 4)

\* the method string the claims give to a code
ClaimedMethodString(m) ==
    IF m = 0 THEN <<"S", "T", "O", "R", "E">>
    ELSE IF m = 8 THEN <<"D", "E", "F", "L", "A", "T", "E">>
    ELSE <<"0", "x">> \o ClaimedHex(m)

\* the value of an upper-case hexadecimal digit, 16 for any other character
ClaimedDigitValue(c) ==
    IF \E v \in 0..15 : ClaimedHexDigits[v + 1] = c
    THEN CHOOSE v \in 0..15 : ClaimedHexDigits[v + 1] = c
    ELSE 16

\* the number written by hexadecimal digits
RECURSIVE ClaimedHexValue(_)
ClaimedHexValue(digits) ==
    IF digits = <<>> THEN 0
    ELSE 16 * ClaimedHexValue(SubSeq(digits, 1, Len(digits) - 1))
           + ClaimedDigitValue(digits[Len(digits)])

\* the only code a method string can stand for
ClaimedCodeOf(str) ==
    IF str = <<"S", "T", "O", "R", "E">> THEN 0
    ELSE IF str = <<"D", "E", "F", "L", "A", "T", "E">> THEN 8
    ELSE ClaimedHexValue(SubSeq(str, 3, Len(str)))

\* C24: methodToString(m) is STORE for 0, DEFLATE for 8 and otherwise 0x
\* followed by the upper-case hexadecimal digits of m without leading zeros;
\* the code can be read back from the string, so distinct codes give
\* distinct strings.
MethodStringIsExact ==
    ev.name = "methodToString" =>
        /\ ev.s = ClaimedMethodString(ev.m)
        /\ ClaimedCodeOf(ev.s) = ev.m
        /\ ev.m = 1 => ev.s = <<"0", "x", "1">>
        /\ ev.m = 12 => ev.s = <<"0", "x", "C">>
        /\ ev.m = 14 => ev.s = <<"0", "x", "E">>
        /\ ev.m = 255 => ev.s = <<"0", "x", "F", "F">>

\* C24 witness: the code 255 was rendered as 0xFF.
WitnessMethod255 ==
    /\ ev.name = "methodToString"
    /\ ev.m = 255
    /\ ev.s = <<"0", "x", "F", "F">>

-----------------------------------------------------------------------------
(* Claims about the start of the program, under SpecMain.                  *)

\* main's call of GetFileToExtract returned without an error
StartSucceeded == AfterMain /\ ev.err = Nil

\* main's call of GetFileToExtract returned an error
StartFailed == AfterMain /\ ev.err # Nil

\* C22: for a valid archive the listing has one entry per record, in the
\* order of the records, each with the record's name, directory flag, sizes,
\* method string, modification string ("-" for no time) and checksum.
CatalogMirrorsRecords ==
    StartSucceeded =>
        /\ Len(ev.content) = Len(archive)
        /\ \A i \in 1..Len(archive) :
              /\ ev.content[i].fileName = archive[i].name
              /\ ev.content[i].dir = archive[i].isDir
              /\ ev.content[i].size = archive[i].size
              /\ ev.content[i].compressed = archive[i].compressed
              /\ ev.content[i].method = ClaimedMethodString(archive[i].method)
              /\ ev.content[i].modified
                   = (IF archive[i].modified = <<>> THEN <<"-">> ELSE archive[i].modified)
              /\ ev.content[i].crc = archive[i].crc

\* C22 witness: the archive of three records gave the listing a (DEFLATE,
\* with a time), d/ (a folder), d/x (method 0xC, no time), in this order.
WitnessCatalogOfThree ==
    /\ StartSucceeded
    /\ Len(ev.content) = 3
    /\ ev.content[1].fileName = NameA
    /\ ev.content[1].method = <<"D", "E", "F", "L", "A", "T", "E">>
    /\ ev.content[1].modified = Stamp
    /\ ev.content[2].fileName = NameDSl /\ ev.content[2].dir
    /\ ev.content[3].fileName = NameDX
    /\ ev.content[3].method = <<"0", "x", "C">>
    /\ ev.content[3].compressed = 5
    /\ ev.content[3].modified = <<"-">>

\* C23: the catalog is whole or absent: a path that holds no readable ZIP
\* file gives an error and no listing, a ZIP file gives the listing of all
\* its records and no error.
CatalogIsAllOrNothing ==
    (AfterMain /\ ev.arg.err = Nil) =>
        IF ev.file # "zip"
        THEN /\ ev.err = OpenError(ev.file)
             /\ ev.content = <<>>
        ELSE /\ ev.err = Nil
             /\ Len(ev.content) = Len(archive)
             /\ \A i \in 1..Len(archive) : ev.content[i].fileName = archive[i].name

\* C23 witness: the path held a file that is not a ZIP container: an error
\* and no listing.
WitnessNotAZipFile ==
    /\ AfterMain
    /\ ev.arg.err = Nil
    /\ ev.file = "notzip"
    /\ ev.err = OpenError("notzip")
    /\ ev.content = <<>>

\* the name has at least four characters and the last four are .zip
ClaimedEndsInZip(name) ==
    /\ Len(name) >= 4
    /\ name[Len(name) - 3] = "."
    /\ name[Len(name) - 2] = "z"
    /\ name[Len(name) - 1] = "i"
    /\ name[Len(name)] = "p"

\* C25: the command line is accepted exactly when it has one argument that
\* ends in .zip, and that argument is returned as it is; more arguments,
\* none, and an empty or otherwise named argument give the three errors.
ArgumentValidationIsExact ==
    (AfterMain /\ ev.arg # NotCalled) =>
        LET given == Len(ev.args) - 1
        IN IF given > 1
           THEN ev.arg = [fileName |-> <<>>, err |-> TooManyArgumentsError]
           ELSE IF given = 0
           THEN ev.arg = [fileName |-> <<>>, err |-> NoZipFileError]
           ELSE IF ev.args[2] = <<>> \/ ~ClaimedEndsInZip(ev.args[2])
           THEN ev.arg = [fileName |-> <<>>, err |-> InvalidNameError]
           ELSE ev.arg = [fileName |-> ev.args[2], err |-> Nil]

\* C25 witness: the bare name .zip was accepted and returned.
WitnessBareDotZipAccepted ==
    /\ AfterMain
    /\ ev.args = << Prog, DotZip >>
    /\ ev.arg = [fileName |-> DotZip, err |-> Nil]

\* the command line is one the claims accept
ClaimedAccepted(args) == Len(args) = 2 /\ ClaimedEndsInZip(args[2])

\* C26: when the arguments are refused or the archive cannot be opened,
\* GetFileToExtract returns an error with no name and no listing, the
\* browser is not built and no step follows; the browser starts running only
\* in the step in which the whole listing was returned.
StartErrorsAreFatal ==
    [][ /\ ~StartFailed
        /\ (AtExec /\ (~ClaimedAccepted(ev.args) \/ ev.file # "zip")) => StartFailed'
        /\ StartFailed' =>
              /\ NoBrowser'
              /\ ev'.fileName = <<>>
              /\ ev'.content = <<>>
        /\ (running' /\ ~running) =>
              /\ StartSucceeded'
              /\ Len(ev'.content) = Len(archive)
              /\ Len(allRows') = Len(archive) ]_vars

\* C26 witness: the start failed on a missing file: no browser, not running.
WitnessStartFailed ==
    /\ StartFailed
    /\ ev.file = "missing"
    /\ ev.err = OpenError("missing")
    /\ ~running
    /\ NoBrowser

-----------------------------------------------------------------------------
(* Further claims about the browser, under Spec.                           *)

\* the event made one call of ExtractFile, the archive could be opened, and
\* the records the target matches are directory records only
OnlyFoldersMatched(cs) ==
    /\ Len(cs) = 1
    /\ cs[1].err # OpenZipError
    /\ ClaimedMatch(archive, cs[1].target) # {}
    /\ ClaimedFiles(archive, cs[1].target) = {}

\* C27: when the target matches directory records only, the call returns
\* count 0 without an error and writes nothing, and the browser shows the
\* success message of a folder of 0 files on the selected row.
EmptyFolderIsExtractedAsZeroFiles ==
    [][ OnlyFoldersMatched(calls') =>
          /\ calls'[1].err = Nil
          /\ calls'[1].count = 0
          /\ fs' = fs
          /\ title' = [kind |-> "Extracted folder", count |-> 0]
          /\ extractionMessage' = [kind |-> "Extracted folder", count |-> 0]
          /\ lastExtractedRow' = selectedRow ]_vars

\* C27 witness: Yes was chosen for the folder d/ of an archive that holds
\* nothing else: count 0, no error, no file, the success message is shown.
WitnessEmptyFolderExtracted ==
    /\ ev.key = "Button" /\ ev.rune = "Yes"
    /\ Len(archive) = 1
    /\ Len(calls) = 1
    /\ calls[1].target = NameDSl
    /\ calls[1].err = Nil
    /\ calls[1].count = 0
    /\ DOMAIN fs.files = {}
    /\ title = [kind |-> "Extracted folder", count |-> 0]

\* C29: in every state of the browser the rows of the table are the rows
\* of the listing that match the text of the filter field, in the order of
\* the listing.
RowsFollowFilterText == tableRows = ClaimedVisible(allRows, inputText)

\* C29 witness: the table has the focus again, Enter on the file d/x has
\* just extracted it, and the kept text x still shows that one row of three.
WitnessKeptFilterAfterExtraction ==
    /\ focus = "table"
    /\ ev.key = "Enter" /\ ev.on = "table"
    /\ Len(calls) = 1 /\ calls[1].err = Nil
    /\ inputText = <<"x">>
    /\ Len(allRows) = 3
    /\ Len(tableRows) = 1
    /\ tableRows[1][1] = NameDX

\* C30 as stated: the selected row is a row of the table whenever the table
\* has rows, and Enter on a table without rows calls no extraction, opens no
\* dialog and leaves the title as it is.
EnterWithoutRowDoesNothing ==
    [][ /\ tableRows # <<>> => selectedRow \in 1..Len(tableRows)
        /\ (ev'.key = "Enter" /\ ev'.on = "table" /\ tableRows = <<>>) =>
              /\ calls' = <<>>
              /\ focus' = "table"
              /\ title' = title ]_vars

\* the mode of the browser the claims speak of
InNormal == focus = "table"
InFiltering == focus = "filterInput"
InConfirming == focus = "modal"

\* the calls made by the step just taken made one pass at most: one call,
\* which counted no more files than the archive has records
OnePassAtMost(cs) ==
    /\ Len(cs) <= 1
    /\ \A c \in 1..Len(cs) : cs[c].count <= Len(archive)

\* C31: no mode is a trap.  An event can be handled exactly while the
\* application runs, so the only state without a next one is the stopped
\* application; in Filtering both Enter and Escape can be handled, and the
\* browser is in Normal after either; it is in Normal after every result of
\* the dialog (Yes, No, dismiss); and every step calls the extraction at
\* most once, the call ending within one pass over the records.
NoModeIsATrap ==
    /\ running <=> ENABLED Next
    /\ running /\ InFiltering =>
           \A key \in {"Enter", "Escape"} : ENABLED (InputDone /\ ev'.key = key)
    /\ (ev.on = "filterInput" /\ ev.key \in {"Enter", "Escape"}) =>
           InNormal /\ running
    /\ (ev.on = "modal" /\ ev.key = "Button") =>
           InNormal /\ running
    /\ OnePassAtMost(calls)

\* C31 witness: the dialog was answered No while the success of an earlier
\* extraction was displayed, and the browser is in Normal again.
WitnessBackFromDialog ==
    /\ running /\ InNormal
    /\ ev.on = "modal" /\ ev.key = "Button" /\ ev.rune = "No"
    /\ lastExtractedRow # -1
    /\ ShowsSuccess(title)

\* the entry the displayed success speaks of: the file named in the message,
\* or the folder the dialog was opened on
ExtractedName == IF title.kind = "Extracted" THEN title.name ELSE modalFolder

\* C32 as stated: whenever a success status is displayed, a row is selected
\* and it shows the entry that was extracted, also after the visible rows
\* were recomputed.
StatusStaysOnExtractedEntry ==
    ShowsSuccess(title) => RowSelected /\ SelectedName = ExtractedName

\* C33: filterMode is set exactly while the filter field has the focus, and
\* then the footer is in the layout once; with the focus on the table or on
\* the dialog the flag is clear and the footer is not in the layout; and
\* after 'f' or 'F' on the table the field has the focus.
FilterFlagFollowsFocus ==
    /\ filterMode <=> InFiltering
    /\ footerItems = (IF InFiltering THEN 1 ELSE 0)
    /\ FilterKeyOnTable(ev) => InFiltering

\* C33 witness: the filter field was opened from the table while the success
\* of a folder extraction was displayed, so the dialog had been shown and
\* closed before.
WitnessFilterOpenedAfterDialog ==
    /\ FilterKeyOnTable(ev)
    /\ InFiltering /\ filterMode /\ footerItems = 1
    /\ title.kind = "Extracted folder"

-----------------------------------------------------------------------------
(* Further claims about the whole program, under SpecMain.                 *)

\* C28: between the steps of the program (the start and every event of the
\* browser) no reader is open on the ZIP file, whether the catalog build or
\* the extraction before it succeeded or failed.
NoArchiveHandleHeld == handles = 0

\* C28 witness: an extraction has just failed while creating a directory,
\* and no reader is open.
WitnessClosedAfterFailure ==
    /\ ~AtExec /\ ~AfterMain
    /\ running
    /\ Len(calls) = 1
    /\ calls[1].err = MkdirError
    /\ handles = 0

====
